---- MODULE Spec2Model ----
(***************************************************************************)
(* Timing statistics and criticality utilities of                          *)
(* vpr/src/route/rr_graph_clock.cpp (lines 133-650).                       *)
(*                                                                         *)
(* The routines are reductions over the tags of an external timing         *)
(* analyzer.  The state holds the analyzer's data (the inputs) and `ret`,  *)
(* the value returned by the last call; every routine is one action.       *)
(*                                                                         *)
(* Numbers.  A tag's time is a finite float; it is modelled as an integer  *)
(* number of grid units (the spacing of neighbouring floats).  Where the   *)
(* code can produce a non-finite float (the +/-infinity seeds of a         *)
(* min/max scan, NaN of a default-constructed path) the value is a record  *)
(* [k, v] with k in {"nan", "ninf", "fin", "inf"}.  A sum whose exact      *)
(* value is off the grid rounds to the nearest grid point, ties to even,   *)
(* as IEEE-754 does.  A criticality is a ratio and is kept exact as        *)
(* [num, den] with den > 0.                                                *)
(***************************************************************************)
EXTENDS Integers, Sequences, FiniteSets, TLC

VARIABLES setup_slacks, hold_slacks, cpds, domains_max_req, domains_worst_slack, tags, node_type, setup_tags, atom_pins, setup_pin_criticality, ret, prev_ret

vars == <<setup_slacks, hold_slacks, cpds, domains_max_req, domains_worst_slack, tags, node_type, setup_tags, atom_pins, setup_pin_criticality, ret, prev_ret>>

----------------------------------------------------------------------------
(* Bounds of the model *)

\* logical-output nodes of the timing graph
NumNodes == 2
\* slack tags of one analyzer, over all nodes
MaxTags == 3
\* largest num_bins passed to a histogram builder
MaxBins == 5
\* critical paths returned by tatum::find_critical_paths
MaxPaths == 3
\* tags handed to calc_relaxed_criticality
MaxCritTags == 2
\* atom pins of the netlist, and atom pins connected to one CLB pin
MaxAtomPins == 3

Nodes == 1..NumNodes

\* tag times, in grid units
SlackValues == {-3, -1, 0, 2}

\* clock domains and the domain pairs the criticality inputs range over
Domains == {1, 2}

----------------------------------------------------------------------------
(* float values *)

Fin(x) == [k |-> "fin", v |-> x]

NaN == [k |-> "nan", v |-> 0]

PosInf == [k |-> "inf", v |-> 0]

NegInf == [k |-> "ninf", v |-> 0]

isnan(a) == a.k = "nan"

FCls(a) == IF a.k = "ninf" THEN 0 ELSE IF a.k = "fin" THEN 1 ELSE 2

\* a < b on floats: false when either side is NaN
FLt(a, b) ==
    /\ ~isnan(a)
    /\ ~isnan(b)
    /\ \/ FCls(a) < FCls(b)
       \/ a.k = "fin" /\ b.k = "fin" /\ a.v < b.v

\* a == b on floats: false when either side is NaN
FEq(a, b) == ~isnan(a) /\ ~isnan(b) /\ a = b

FLe(a, b) == FLt(a, b) \/ FEq(a, b)

\* std::min(a, b) is (b < a) ? b : a
FMin(a, b) == IF FLt(b, a) THEN b ELSE a

\* std::max(a, b) is (a < b) ? b : a
FMax(a, b) == IF FLt(a, b) THEN b ELSE a

FNeg(a) == IF a.k = "fin" THEN Fin(-a.v) ELSE IF a.k = "inf" THEN NegInf ELSE IF a.k = "ninf" THEN PosInf ELSE NaN

FAdd(a, b) ==
    IF isnan(a) \/ isnan(b) THEN NaN
    ELSE IF a.k = "fin" /\ b.k = "fin" THEN Fin(a.v + b.v)
    ELSE IF a.k = "fin" THEN b
    ELSE IF b.k = "fin" THEN a
    ELSE IF a.k = b.k THEN a
    ELSE NaN

FSub(a, b) == FAdd(a, FNeg(b))

\* num/den (den > 0) rounded to the nearest integer, ties to even
RoundHalfEven(num, den) ==
    LET q == num \div den
        r == num % den
    IN  IF 2 * r < den THEN q
        ELSE IF 2 * r > den THEN q + 1
        ELSE IF q % 2 = 0 THEN q ELSE q + 1

----------------------------------------------------------------------------
(* the analyzer's tags *)

TimingTag(ty, l, c, t) == [type |-> ty, launch |-> l, capture |-> c, time |-> t]

BoundedSeq(S, n) == UNION {[1..m -> S] : m \in 0..n}

\* the tags of one analyzer: a flat sequence of at most MaxTags tags cut into
\* one contiguous piece per node, so node n holds piece n
Cuts(len) == {c \in [0..NumNodes -> 0..len] : c[0] = 0 /\ c[NumNodes] = len /\ \A n \in Nodes : c[n - 1] <= c[n]}

NodeTags(T) == UNION {{[n \in Nodes |-> SubSeq(s, c[n - 1] + 1, c[n])] : c \in Cuts(Len(s))} : s \in BoundedSeq(T, MaxTags)}

NoTags == [n \in Nodes |-> <<>>]

\* the order in which `for node : logical_outputs()` / `for tag : slacks(node)`
\* visits the tags: node by node, each node's tags in order
RECURSIVE visit_from(_, _)
visit_from(slacks, n) ==
    IF n > NumNodes THEN <<>> ELSE slacks[n] \o visit_from(slacks, n + 1)

visit(slacks) == visit_from(slacks, 1)

----------------------------------------------------------------------------
(* negative-slack totals *)

\* tns_loop without the `slack < 0.` guard: every tag is added
RECURSIVE tns_loop_unguarded(_, _, _)
tns_loop_unguarded(s, i, tns) ==
    IF i > Len(s) THEN tns ELSE tns_loop_unguarded(s, i + 1, tns + s[i].time)

\* one pass of the loop body of find_*_total_negative_slack
RECURSIVE tns_loop(_, _, _)
tns_loop(s, i, tns) ==
    IF i > Len(s) THEN tns
    ELSE LET slack == s[i].time
         IN  tns_loop(s, i + 1, IF slack < 0 THEN tns + slack ELSE tns)

find_setup_total_negative_slack(slacks) == tns_loop(visit(slacks), 1, 0)

find_hold_total_negative_slack(slacks) == tns_loop(visit(slacks), 1, 0)

IntMin(a, b) == IF b < a THEN b ELSE a

\* wns_loop keeping the latest negative slack instead of the std::min
RECURSIVE wns_loop_latest(_, _, _)
wns_loop_latest(s, i, wns) ==
    IF i > Len(s) THEN wns
    ELSE wns_loop_latest(s, i + 1, IF s[i].time < 0 THEN s[i].time ELSE wns)

\* one pass of the loop body of find_*_worst_negative_slack
RECURSIVE wns_loop(_, _, _)
wns_loop(s, i, wns) ==
    IF i > Len(s) THEN wns
    ELSE LET slack == s[i].time
         IN  wns_loop(s, i + 1, IF slack < 0 THEN IntMin(wns, slack) ELSE wns)

find_setup_worst_negative_slack(slacks) == wns_loop(visit(slacks), 1, 0)

find_hold_worst_negative_slack(slacks) == wns_loop(visit(slacks), 1, 0)

----------------------------------------------------------------------------
(* slack histograms *)

HistogramBucket(mn, mx) == [min_value |-> mn, max_value |-> mx, count |-> 0]

\* the scan for the min and max slacks, seeded with +infinity and -infinity
RECURSIVE min_max_loop(_, _, _, _)
min_max_loop(s, i, min_slack, max_slack) ==
    IF i > Len(s) THEN [min_slack |-> min_slack, max_slack |-> max_slack]
    ELSE LET slack == Fin(s[i].time)
         IN  min_max_loop(s, i + 1, FMin(min_slack, slack), FMax(max_slack, slack))

\* range / num_bins: the quotient of a float by a positive count, kept as the
\* exact ratio num/den of grid units (a non-finite range stays what it is)
FDivCount(range, num_bins) == [k |-> range.k, num |-> range.v, den |-> num_bins]

\* bucket_min + bin_size, rounded to the float grid
add_bin_size(bucket_min, bin_size) ==
    IF bucket_min.k = "fin" /\ bin_size.k = "fin"
    THEN Fin(RoundHalfEven(bucket_min.v * bin_size.den + bin_size.num, bin_size.den))
    ELSE FAdd(bucket_min, [k |-> bin_size.k, v |-> 0])

\* "Create the buckets": num_bins buckets, each starting where the last ended
RECURSIVE create_buckets(_, _, _, _, _)
create_buckets(histogram, bucket_min, bin_size, ibucket, num_bins) ==
    IF ~(ibucket < num_bins) THEN histogram
    ELSE LET bucket_max == add_bin_size(bucket_min, bin_size)
         IN  create_buckets(Append(histogram, HistogramBucket(bucket_min, bucket_max)), bucket_max, bin_size, ibucket + 1, num_bins)

\* force_last_max left out: the last bucket keeps its accumulated max
force_last_max_skipped(histogram, max_slack) == histogram

\* histogram[histogram.size()-1].max_value = max_slack
force_last_max(histogram, max_slack) ==
    [histogram EXCEPT ![Len(histogram)].max_value = max_slack]

\* the comparator handed to std::lower_bound
comp(bucket, slack) == FLt(bucket.max_value, slack)

\* std::lower_bound(histogram.begin(), histogram.end(), slack, comp): the
\* library's halving search; the result is an index, Len(histogram) + 1 for end()
RECURSIVE lower_bound_loop(_, _, _, _)
lower_bound_loop(histogram, slack, first, len) ==
    IF ~(len > 0) THEN first
    ELSE LET half == len \div 2
             middle == first + half
         IN  IF comp(histogram[middle], slack)
             THEN lower_bound_loop(histogram, slack, middle + 1, len - half - 1)
             ELSE lower_bound_loop(histogram, slack, first, half)

lower_bound(histogram, slack) == lower_bound_loop(histogram, slack, 1, Len(histogram))

\* "Count the slacks into the buckets"; VTR_ASSERT(iter != histogram.end())
\* ends the call when no bucket is found
RECURSIVE count_loop(_, _, _)
count_loop(s, i, histogram) ==
    IF i > Len(s) THEN [status |-> "ok", histogram |-> histogram]
    ELSE LET iter == lower_bound(histogram, Fin(s[i].time))
         IN  IF iter = Len(histogram) + 1 THEN [status |-> "assert", histogram |-> <<>>]
             ELSE count_loop(s, i + 1, [histogram EXCEPT ![iter].count = @ + 1])

\* the body shared, line for line, by the setup and the hold builder
create_slack_histogram(s, num_bins) ==
    LET mm == min_max_loop(s, 1, PosInf, NegInf)
        range == FSub(mm.max_slack, mm.min_slack)
        bin_size == FDivCount(range, num_bins)
        buckets == create_buckets(<<>>, mm.min_slack, bin_size, 0, num_bins)
        histogram == force_last_max(buckets, mm.max_slack)
    IN  count_loop(s, 1, histogram)

create_setup_slack_histogram(slacks, num_bins) == create_slack_histogram(visit(slacks), num_bins)

create_hold_slack_histogram(slacks, num_bins) == create_slack_histogram(visit(slacks), num_bins)

----------------------------------------------------------------------------
(* the slack statistics as a state machine *)

NoRet == [op |-> "none"]

NoMap == [p \in {} |-> 0]

\* slack tags of the one domain pair (1, 1)
SlackTagSet == {TimingTag("SLACK", 1, 1, t) : t \in SlackValues}

\* the setup and the hold analyzer are separate objects and no routine reads
\* both: a state holds the tags of one of them, the other holds none
InitSlack ==
    /\ \E T \in NodeTags(SlackTagSet) :
          \/ setup_slacks = T /\ hold_slacks = NoTags
          \/ setup_slacks = NoTags /\ hold_slacks = T
    /\ cpds = <<>>
    /\ domains_max_req = NoMap
    /\ domains_worst_slack = NoMap
    /\ tags = <<>>
    /\ ret = NoRet
    /\ prev_ret = NoRet
    /\ node_type = <<>>
    /\ setup_tags = <<>>
    /\ atom_pins = <<>>
    /\ setup_pin_criticality = <<>>

Returns(r) ==
    /\ ret' = r
    /\ UNCHANGED <<setup_slacks, hold_slacks, cpds, domains_max_req, domains_worst_slack, tags, node_type, setup_tags, atom_pins, setup_pin_criticality, prev_ret>>

Call_find_setup_total_negative_slack ==
    Returns([op |-> "find_setup_total_negative_slack", val |-> find_setup_total_negative_slack(setup_slacks)])

Call_find_hold_total_negative_slack ==
    Returns([op |-> "find_hold_total_negative_slack", val |-> find_hold_total_negative_slack(hold_slacks)])

Call_find_setup_worst_negative_slack ==
    Returns([op |-> "find_setup_worst_negative_slack", val |-> find_setup_worst_negative_slack(setup_slacks)])

Call_find_hold_worst_negative_slack ==
    Returns([op |-> "find_hold_worst_negative_slack", val |-> find_hold_worst_negative_slack(hold_slacks)])

Call_create_setup_slack_histogram ==
    \E num_bins \in 1..MaxBins :
        LET h == create_setup_slack_histogram(setup_slacks, num_bins)
        IN  Returns([op |-> "create_setup_slack_histogram", num_bins |-> num_bins, status |-> h.status, val |-> h.histogram])

Call_create_hold_slack_histogram ==
    \E num_bins \in 1..MaxBins :
        LET h == create_hold_slack_histogram(hold_slacks, num_bins)
        IN  Returns([op |-> "create_hold_slack_histogram", num_bins |-> num_bins, status |-> h.status, val |-> h.histogram])

NextSlack ==
    \/ Call_find_setup_total_negative_slack
    \/ Call_find_hold_total_negative_slack
    \/ Call_find_setup_worst_negative_slack
    \/ Call_find_hold_worst_negative_slack
    \/ Call_create_setup_slack_histogram
    \/ Call_create_hold_slack_histogram

SpecSlack == InitSlack /\ [][NextSlack]_vars

----------------------------------------------------------------------------
(* properties of the slack statistics *)

\* the positions <<node, index>> of the tags of one analyzer
Positions(slacks) == {p \in Nodes \X (1..MaxTags) : p[2] <= Len(slacks[p[1]])}

TimeAt(slacks, p) == slacks[p[1]][p[2]].time

NegTimes(slacks) == {TimeAt(slacks, p) : p \in {q \in Positions(slacks) : TimeAt(slacks, q) < 0}}

RECURSIVE SumOf(_, _)
SumOf(slacks, P) ==
    IF P = {} THEN 0
    ELSE LET p == CHOOSE q \in P : TRUE
         IN  TimeAt(slacks, p) + SumOf(slacks, P \ {p})

NegTotal(slacks) == SumOf(slacks, {p \in Positions(slacks) : TimeAt(slacks, p) < 0})

\* slacks with one more tag of time t at the end of node n
AddTag(slacks, n, t) == [slacks EXCEPT ![n] = Append(@, TimingTag("SLACK", 1, 1, t))]

WorstNegativeOK(op, slacks) ==
    ret.op = op =>
        /\ ret.val <= 0
        /\ \A t \in NegTimes(slacks) : ret.val <= t
        /\ NegTimes(slacks) # {} => ret.val \in NegTimes(slacks)
        /\ NegTimes(slacks) = {} => ret.val = 0

\* C7: find_setup_worst_negative_slack and find_hold_worst_negative_slack
\* return a value <= 0 and <= every negative slack present: the minimum of the
\* negative slacks when there is one, exactly 0 when no tag is negative or
\* there is no tag at all.
C7_WorstNegativeSlack ==
    /\ WorstNegativeOK("find_setup_worst_negative_slack", setup_slacks)
    /\ WorstNegativeOK("find_hold_worst_negative_slack", hold_slacks)

\* a call on tags with two different negative slacks and a non-negative one,
\* the smaller negative slack seen first
C7_Witness ==
    /\ ret.op = "find_hold_worst_negative_slack"
    /\ Cardinality(NegTimes(hold_slacks)) = 2
    /\ Len(visit(hold_slacks)) = 3
    /\ visit(hold_slacks)[1].time < visit(hold_slacks)[3].time
    /\ visit(hold_slacks)[3].time < 0
    /\ ret.val = visit(hold_slacks)[1].time

TotalNegativeOK(op, slacks, result) ==
    ret.op = op =>
        /\ ret.val = NegTotal(slacks)
        /\ ret.val <= 0
        /\ \A n \in Nodes, t \in {x \in SlackValues : x >= 0} : result[<<n, t>>] = ret.val

\* C8: find_setup_total_negative_slack and find_hold_total_negative_slack
\* return the sum of exactly the tag values below zero over all tags of all
\* logical-output nodes, a value <= 0; one more tag of slack >= 0 on any node
\* leaves the result as it is.
C8_TotalNegativeSlack ==
    /\ TotalNegativeOK("find_setup_total_negative_slack", setup_slacks, [x \in Nodes \X SlackValues |-> find_setup_total_negative_slack(AddTag(setup_slacks, x[1], x[2]))])
    /\ TotalNegativeOK("find_hold_total_negative_slack", hold_slacks, [x \in Nodes \X SlackValues |-> find_hold_total_negative_slack(AddTag(hold_slacks, x[1], x[2]))])

\* a call on tags with two negative slacks, on different nodes, and a positive one
C8_Witness ==
    /\ ret.op = "find_setup_total_negative_slack"
    /\ \E p, q \in Positions(setup_slacks) : p[1] # q[1] /\ TimeAt(setup_slacks, p) < 0 /\ TimeAt(setup_slacks, q) < 0
    /\ \E p \in Positions(setup_slacks) : TimeAt(setup_slacks, p) > 0
    /\ ret.val < 0

----------------------------------------------------------------------------
(* properties of the histograms *)

RECURSIVE SumCounts(_, _)
SumCounts(h, i) == IF i > Len(h) THEN 0 ELSE h[i].count + SumCounts(h, i + 1)

\* the largest time of a non-empty tag sequence
MaxTime(s) == CHOOSE t \in {s[j].time : j \in 1..Len(s)} : \A j \in 1..Len(s) : s[j].time <= t

\* ascending by bucket start: each bucket starts where the one before it
\* ends, and the bucket starts never decrease
AscendingStarts(h) ==
    \A i \in 1..Len(h) - 1 :
        /\ FEq(h[i].max_value, h[i + 1].min_value)
        /\ FLe(h[i].min_value, h[i + 1].min_value)

\* ascending in both bounds: neither the bucket starts nor the bucket ends
\* ever decrease
AscendingBounds(h) ==
    \A i \in 1..Len(h) - 1 :
        /\ FLe(h[i].min_value, h[i + 1].min_value)
        /\ FLe(h[i].max_value, h[i + 1].max_value)

HistogramCounts(h, s) ==
    /\ ret.status = "ok"
    /\ Len(h) = ret.num_bins
    /\ \A i \in 1..Len(h) : h[i].count >= 0
    /\ SumCounts(h, 1) = Len(s)

\* C5 (as amended): for every non-empty tag collection and every
\* num_bins >= 1, create_setup_slack_histogram and create_hold_slack_histogram
\* return exactly num_bins buckets, each starting where the one before it ends
\* and with bucket starts that never decrease; every count is >= 0, the counts
\* sum to the number of input tags, and the last bucket's max_value is the exact
\* maximum input slack (which may lie below the last bucket's accumulated
\* min_value).  This includes all slacks being identical.
HistogramShape(op, s) ==
    (ret.op = op /\ Len(s) > 0) =>
        /\ HistogramCounts(ret.val, s)
        /\ AscendingStarts(ret.val)
        /\ FEq(ret.val[Len(ret.val)].max_value, Fin(MaxTime(s)))

C5_HistogramShape ==
    /\ HistogramShape("create_setup_slack_histogram", visit(setup_slacks))
    /\ HistogramShape("create_hold_slack_histogram", visit(hold_slacks))

\* a histogram of three bins over three tags that all carry the same slack
C5_Witness ==
    /\ ret.op = "create_hold_slack_histogram"
    /\ ret.num_bins = 3
    /\ Len(visit(hold_slacks)) = 3
    /\ \A j \in 1..3 : visit(hold_slacks)[j].time = visit(hold_slacks)[1].time
    /\ ret.status = "ok"
    /\ ret.val[1].count = 3

\* C5 as stated: for every tag collection, the empty one included, the
\* buckets are in ascending order, by their starts and by their ends
HistogramShapeAll(op, s) ==
    ret.op = op =>
        /\ HistogramCounts(ret.val, s)
        /\ AscendingBounds(ret.val)
        /\ Len(s) > 0 => FEq(ret.val[Len(ret.val)].max_value, Fin(MaxTime(s)))

C5_Original ==
    /\ HistogramShapeAll("create_setup_slack_histogram", visit(setup_slacks))
    /\ HistogramShapeAll("create_hold_slack_histogram", visit(hold_slacks))

\* the bucket the counting loop increments for slack v
BucketOf(h, v) == lower_bound(h, Fin(v))

HalfOpenBuckets(op, s) ==
    (ret.op = op /\ ret.status = "ok") =>
        /\ SumCounts(ret.val, 1) = Len(s)
        /\ \A j \in 1..Len(s) :
              LET v == Fin(s[j].time)
                  b == BucketOf(ret.val, s[j].time)
              IN  /\ b <= Len(ret.val)
                  /\ FLe(ret.val[b].min_value, v)
                  /\ \/ FLt(v, ret.val[b].max_value)
                     \/ b = Len(ret.val) /\ FEq(v, Fin(MaxTime(s)))

\* C6: every input slack v is counted in exactly one bucket, and that bucket's
\* half-open range contains it: min_value <= v < max_value, the last bucket
\* also holding v equal to the global maximum.
C6_HalfOpenBuckets ==
    /\ HalfOpenBuckets("create_setup_slack_histogram", visit(setup_slacks))
    /\ HalfOpenBuckets("create_hold_slack_histogram", visit(hold_slacks))

----------------------------------------------------------------------------
(* critical paths *)

\* tatum::TimingPathInfo and its default constructor: no domains, NaN delay
\* and NaN slack
TimingPathInfo(l, c, d, sl) == [launch |-> l, capture |-> c, delay |-> d, slack |-> sl]

INVALID == 0

default_TimingPathInfo == TimingPathInfo(INVALID, INVALID, NaN, NaN)

\* longest_loop replacing on `<=`: the latest of equal delays wins
RECURSIVE longest_loop_le(_, _, _)
longest_loop_le(paths, i, crit_path_info) ==
    IF i > Len(paths) THEN crit_path_info
    ELSE LET path_info == paths[i]
         IN  longest_loop_le(paths, i + 1, IF FLe(crit_path_info.delay, path_info.delay) \/ isnan(crit_path_info.delay) THEN path_info ELSE crit_path_info)

\* "Record the maximum critical path accross all domain pairs"
RECURSIVE longest_loop(_, _, _)
longest_loop(paths, i, crit_path_info) ==
    IF i > Len(paths) THEN crit_path_info
    ELSE LET path_info == paths[i]
         IN  longest_loop(paths, i + 1, IF FLt(crit_path_info.delay, path_info.delay) \/ isnan(crit_path_info.delay) THEN path_info ELSE crit_path_info)

find_longest_critical_path_delay(paths) == longest_loop(paths, 1, default_TimingPathInfo)

\* least_slack_loop replacing on `<=`: the latest of equal slacks wins
RECURSIVE least_slack_loop_le(_, _, _)
least_slack_loop_le(paths, i, crit_path_info) ==
    IF i > Len(paths) THEN crit_path_info
    ELSE LET path_info == paths[i]
         IN  least_slack_loop_le(paths, i + 1, IF FLe(path_info.slack, crit_path_info.slack) \/ isnan(crit_path_info.slack) THEN path_info ELSE crit_path_info)

RECURSIVE least_slack_loop(_, _, _)
least_slack_loop(paths, i, crit_path_info) ==
    IF i > Len(paths) THEN crit_path_info
    ELSE LET path_info == paths[i]
         IN  least_slack_loop(paths, i + 1, IF FLt(path_info.slack, crit_path_info.slack) \/ isnan(crit_path_info.slack) THEN path_info ELSE crit_path_info)

find_least_slack_critical_path_delay(paths) == least_slack_loop(paths, 1, default_TimingPathInfo)

\* path delays and slacks, in grid units
DelayValues == {1, 2}

PathSlackValues == {-2, 5}

PathSet == {TimingPathInfo(l, c, Fin(d), Fin(sl)) : l \in Domains, c \in Domains, d \in DelayValues, sl \in PathSlackValues}

\* tatum::find_critical_paths returns one path per domain pair that has one
CriticalPaths == {s \in BoundedSeq(PathSet, MaxPaths) : \A i, j \in 1..Len(s) : (s[i].launch = s[j].launch /\ s[i].capture = s[j].capture) => i = j}

InitPaths ==
    /\ cpds \in CriticalPaths
    /\ setup_slacks = NoTags
    /\ hold_slacks = NoTags
    /\ domains_max_req = NoMap
    /\ domains_worst_slack = NoMap
    /\ tags = <<>>
    /\ ret = NoRet
    /\ prev_ret = NoRet
    /\ node_type = <<>>
    /\ setup_tags = <<>>
    /\ atom_pins = <<>>
    /\ setup_pin_criticality = <<>>

Call_find_longest_critical_path_delay ==
    Returns([op |-> "find_longest_critical_path_delay", val |-> find_longest_critical_path_delay(cpds)])

Call_find_least_slack_critical_path_delay ==
    Returns([op |-> "find_least_slack_critical_path_delay", val |-> find_least_slack_critical_path_delay(cpds)])

NextPaths ==
    \/ Call_find_longest_critical_path_delay
    \/ Call_find_least_slack_critical_path_delay

SpecPaths == InitPaths /\ [][NextPaths]_vars

\* C9: find_least_slack_critical_path_delay returns, among the critical paths
\* in enumeration order, the path of minimum slack, the earliest-enumerated
\* one when several tie for the minimum (slacks 5, -2, -2 return the second
\* path); with no paths it returns the default path, whose slack is NaN.
C9_LeastSlackPath ==
    ret.op = "find_least_slack_critical_path_delay" =>
        /\ cpds = <<>> => (ret.val = default_TimingPathInfo /\ isnan(ret.val.slack))
        /\ cpds # <<>> =>
              \E i \in 1..Len(cpds) :
                  /\ ret.val = cpds[i]
                  /\ \A j \in 1..Len(cpds) : cpds[i].slack.v <= cpds[j].slack.v
                  /\ \A j \in 1..i - 1 : cpds[i].slack.v < cpds[j].slack.v
        /\ (Len(cpds) = 3 /\ cpds[1].slack = Fin(5) /\ cpds[2].slack = Fin(-2) /\ cpds[3].slack = Fin(-2)) => ret.val = cpds[2]

\* three paths with slacks 5, -2, -2: the second is returned
C9_Witness ==
    /\ ret.op = "find_least_slack_critical_path_delay"
    /\ Len(cpds) = 3
    /\ cpds[1].slack = Fin(5)
    /\ cpds[2].slack = Fin(-2)
    /\ cpds[3].slack = Fin(-2)
    /\ ret.val = cpds[2]

\* C10: find_longest_critical_path_delay starts from the default path (NaN
\* delay) and returns a path of maximum delay, the earliest-enumerated one
\* when delays tie; with no paths it returns the default path.
C10_LongestPath ==
    ret.op = "find_longest_critical_path_delay" =>
        /\ cpds = <<>> => (ret.val = default_TimingPathInfo /\ isnan(ret.val.delay))
        /\ cpds # <<>> =>
              \E i \in 1..Len(cpds) :
                  /\ ret.val = cpds[i]
                  /\ \A j \in 1..Len(cpds) : cpds[j].delay.v <= cpds[i].delay.v
                  /\ \A j \in 1..i - 1 : cpds[j].delay.v < cpds[i].delay.v

\* three paths with delays 1, 2, 2: the NaN start is replaced by the first
\* path, the first by the second, and the tie with the third keeps the second
C10_Witness ==
    /\ ret.op = "find_longest_critical_path_delay"
    /\ Len(cpds) = 3
    /\ cpds[1].delay = Fin(1)
    /\ cpds[2].delay = Fin(2)
    /\ cpds[3].delay = Fin(2)
    /\ ret.val = cpds[2]

----------------------------------------------------------------------------
(* relaxed criticality *)

\* exact ratios num/den, den > 0
Rat(n, d) == [num |-> n, den |-> d]

RZero == Rat(0, 1)

ROne == Rat(1, 1)

RLt(a, b) == a.num * b.den < b.num * a.den

RLe(a, b) == a.num * b.den <= b.num * a.den

REq(a, b) == a.num * b.den = b.num * a.den

RAdd(a, b) == Rat(a.num * b.den + b.num * a.den, a.den * b.den)

RSub(a, b) == Rat(a.num * b.den - b.num * a.den, a.den * b.den)

\* std::max(a, b) is (a < b) ? b : a
RMax(a, b) == IF RLt(a, b) THEN b ELSE a

\* std::min(a, b) is (b < a) ? b : a
RMin(a, b) == IF RLt(b, a) THEN b ELSE a

DomainPair(l, c) == <<l, c>>

\* constexpr float CRITICALITY_ROUND_OFF_TOLERANCE = 1e-4
CRITICALITY_ROUND_OFF_TOLERANCE == Rat(1, 10000)

\* shifted with only the slack moved: max_req keeps its stored value
shifted_slack_only(slack, max_req, worst_slack) ==
    IF worst_slack < 0
    THEN [slack |-> slack + (-worst_slack), max_req |-> max_req]
    ELSE [slack |-> slack, max_req |-> max_req]

\* the shift with the sign of worst_slack kept
shifted_by_worst_slack(slack, max_req, worst_slack) ==
    IF worst_slack < 0
    THEN [slack |-> slack + worst_slack, max_req |-> max_req + worst_slack]
    ELSE [slack |-> slack, max_req |-> max_req]

\* if(worst_slack < 0.) { shift = -worst_slack; slack += shift; max_req += shift; }
\* (VTR_ASSERT(shift > 0.) cannot fail there)
shifted(slack, max_req, worst_slack) ==
    IF worst_slack < 0
    THEN LET shift == -worst_slack
         IN  [slack |-> slack + shift, max_req |-> max_req + shift]
    ELSE [slack |-> slack, max_req |-> max_req]

\* within_tolerance without the upper check
within_tolerance_lower_only(crit) == RLe(RSub(RZero, CRITICALITY_ROUND_OFF_TOLERANCE), crit)

\* the two "soft check" assertions on the unclamped criticality
within_tolerance(crit) ==
    /\ RLe(RSub(RZero, CRITICALITY_ROUND_OFF_TOLERANCE), crit)
    /\ RLe(crit, RAdd(ROne, CRITICALITY_ROUND_OFF_TOLERANCE))

\* clamp01 left out
clamp01_skipped(crit) == crit

\* crit = std::max(0.f, crit); crit = std::min(1.f, crit)
clamp01(crit) == RMin(ROne, RMax(RZero, crit))

\* the smallest worst slack of any domain pair instead of the tag's own
find_worst_slack_global(domains_worst_slack_, domain_pair) ==
    CHOOSE w \in {domains_worst_slack_[p] : p \in DOMAIN domains_worst_slack_} : \A p \in DOMAIN domains_worst_slack_ : w <= domains_worst_slack_[p]

\* iter = domains_worst_slack.find(domain_pair); worst_slack = iter->second
find_worst_slack(domains_worst_slack_, domain_pair) == domains_worst_slack_[domain_pair]

\* the loop body with crit = slack / max_req
tag_criticality_slack_ratio(max_crit, tag, domains_max_req_, domains_worst_slack_) ==
    LET domain_pair == DomainPair(tag.launch, tag.capture)
        failed == [status |-> "assert", max_crit |-> max_crit]
    IN  IF tag.type # "SLACK" THEN failed
        ELSE IF domain_pair \notin DOMAIN domains_max_req_ THEN failed
        ELSE IF domain_pair \notin DOMAIN domains_worst_slack_ THEN failed
        ELSE LET sh == shifted(tag.time, domains_max_req_[domain_pair], find_worst_slack(domains_worst_slack_, domain_pair))
             IN  IF ~(sh.max_req > 0) THEN failed
                 ELSE LET crit == Rat(sh.slack, sh.max_req)
                      IN  IF ~within_tolerance(crit) THEN failed
                          ELSE [status |-> "ok", max_crit |-> RMax(max_crit, clamp01(crit))]

\* the loop body for one tag: the new max_crit, or the failure of one of the
\* body's assertions
tag_criticality(max_crit, tag, domains_max_req_, domains_worst_slack_) ==
    LET domain_pair == DomainPair(tag.launch, tag.capture)
        failed == [status |-> "assert", max_crit |-> max_crit]
    IN  IF tag.type # "SLACK" THEN failed
        ELSE IF domain_pair \notin DOMAIN domains_max_req_ THEN failed
        ELSE IF domain_pair \notin DOMAIN domains_worst_slack_ THEN failed
        ELSE LET sh == shifted(tag.time, domains_max_req_[domain_pair], find_worst_slack(domains_worst_slack_, domain_pair))
             IN  IF ~(sh.max_req > 0) THEN failed
                 ELSE LET crit == RSub(ROne, Rat(sh.slack, sh.max_req))
                      IN  IF ~within_tolerance(crit) THEN failed
                          ELSE [status |-> "ok", max_crit |-> RMax(max_crit, clamp01(crit))]

RECURSIVE criticality_loop(_, _, _, _, _)
criticality_loop(tags_, i, max_crit, domains_max_req_, domains_worst_slack_) ==
    IF i > Len(tags_) THEN [status |-> "ok", max_crit |-> max_crit]
    ELSE LET r == tag_criticality(max_crit, tags_[i], domains_max_req_, domains_worst_slack_)
         IN  IF r.status # "ok" THEN r
             ELSE criticality_loop(tags_, i + 1, r.max_crit, domains_max_req_, domains_worst_slack_)

\* the loop, then the two closing assertions on max_crit
calc_relaxed_criticality(domains_max_req_, domains_worst_slack_, tags_) ==
    LET r == criticality_loop(tags_, 1, RZero, domains_max_req_, domains_worst_slack_)
    IN  IF r.status # "ok" THEN [status |-> "assert"]
        ELSE IF ~(RLe(RZero, r.max_crit) /\ RLe(r.max_crit, ROne)) THEN [status |-> "assert"]
        ELSE [status |-> "ok", val |-> r.max_crit]

\* the domain pairs, required times, worst slacks and tag slacks the inputs
\* are drawn from (grid units)
CritPairs == {DomainPair(1, 1), DomainPair(1, 2)}

MaxReqValues == {-1, 10, 20000}

WorstSlackValues == {-1, 2}

CritSlackValues == {-1, 2, 12, 20001}

CritTagSet == {TimingTag("SLACK", p[1], p[2], t) : p \in CritPairs, t \in CritSlackValues} \cup {TimingTag("DATA_ARRIVAL", 1, 1, 2)}

\* std::map<DomainPair,float> with entries for some of the pairs
PairMaps(V) == UNION {[P -> V] : P \in SUBSET CritPairs}

InitCrit ==
    /\ tags \in BoundedSeq(CritTagSet, MaxCritTags)
    /\ domains_max_req \in PairMaps(MaxReqValues)
    /\ domains_worst_slack \in PairMaps(WorstSlackValues)
    /\ setup_slacks = NoTags
    /\ hold_slacks = NoTags
    /\ cpds = <<>>
    /\ ret = NoRet
    /\ prev_ret = NoRet
    /\ node_type = <<>>
    /\ setup_tags = <<>>
    /\ atom_pins = <<>>
    /\ setup_pin_criticality = <<>>

\* the maps and the tags are const parameters: a call leaves them as they are
Call_calc_relaxed_criticality ==
    /\ ret' = [op |-> "calc_relaxed_criticality"] @@ calc_relaxed_criticality(domains_max_req, domains_worst_slack, tags)
    /\ prev_ret' = ret
    /\ UNCHANGED <<setup_slacks, hold_slacks, cpds, domains_max_req, domains_worst_slack, tags, node_type, setup_tags, atom_pins, setup_pin_criticality>>

NextCrit == Call_calc_relaxed_criticality

SpecCrit == InitCrit /\ [][NextCrit]_vars

----------------------------------------------------------------------------
(* properties of the relaxed criticality, stated on the inputs *)

PairOf(t) == <<t.launch, t.capture>>

HasEntries(t) == PairOf(t) \in DOMAIN domains_max_req /\ PairOf(t) \in DOMAIN domains_worst_slack

\* shift = -w when the pair's worst slack w is negative, 0 otherwise
ShiftOf(t) == IF domains_worst_slack[PairOf(t)] < 0 THEN -domains_worst_slack[PairOf(t)] ELSE 0

ShiftedReq(t) == domains_max_req[PairOf(t)] + ShiftOf(t)

ShiftedSlack(t) == t.time + ShiftOf(t)

\* 1 - slack/max_req after the shift, as the ratio (max_req - slack)/max_req
Unclamped(t) == Rat(ShiftedReq(t) - ShiftedSlack(t), ShiftedReq(t))

\* -1e-4 <= 1 - slack/max_req <= 1 + 1e-4, for max_req > 0
InTolerance(t) ==
    LET tol == CRITICALITY_ROUND_OFF_TOLERANCE.den
    IN  /\ tol * Unclamped(t).num >= -Unclamped(t).den
        /\ tol * Unclamped(t).num <= (tol + 1) * Unclamped(t).den

ValidTag(t) == t.type = "SLACK" /\ HasEntries(t) /\ ShiftedReq(t) > 0 /\ InTolerance(t)

\* clamp01(1 - (s + shift)/(m + shift))
Expected(t) ==
    IF Unclamped(t).num < 0 THEN Rat(0, 1)
    ELSE IF Unclamped(t).num > Unclamped(t).den THEN Rat(1, 1)
    ELSE Unclamped(t)

Returned == ret.op = "calc_relaxed_criticality" /\ ret.status = "ok"

\* C1: on every input that violates no precondition (every tag a SLACK tag,
\* both maps holding the tag's domain pair, max_req > 0 after the shift, the
\* unclamped value within the 1e-4 tolerance) a criticality in [0,1] is
\* returned; and a second call on the same maps and tags returns what the
\* first returned.
C1_CriticalityRange ==
    ret.op = "calc_relaxed_criticality" =>
        /\ (\A i \in 1..Len(tags) : ValidTag(tags[i])) =>
              /\ ret.status = "ok"
              /\ 0 <= ret.val.num
              /\ ret.val.num <= ret.val.den
              /\ ret.val.den > 0
        /\ prev_ret.op = "calc_relaxed_criticality" => prev_ret = ret

\* a second call on two valid tags, one of them with an unclamped criticality
\* above 1 (within the tolerance), clamped to 1
C1_Witness ==
    /\ Returned
    /\ prev_ret.op = "calc_relaxed_criticality"
    /\ Len(tags) = 2
    /\ \A i \in 1..2 : ValidTag(tags[i])
    /\ \E i \in 1..2 : ShiftedSlack(tags[i]) < 0
    /\ REq(ret.val, ROne)

SingleTag(s, m, w) ==
    /\ Len(tags) = 1
    /\ tags[1].type = "SLACK"
    /\ HasEntries(tags[1])
    /\ tags[1].time = s
    /\ domains_max_req[PairOf(tags[1])] = m
    /\ domains_worst_slack[PairOf(tags[1])] = w

\* C2: for a single slack tag of slack s whose domain pair has max required
\* time m and worst slack w, the value returned is
\* clamp01(1 - (s + shift)/(m + shift)), shift = -w when w < 0 and 0 when
\* w >= 0: unshifted 1 - s/m when w >= 0 (s=2, m=10, w=2 gives 0.8), both
\* shifted when w < 0 (s=2, m=10, w=-1 gives 1 - 3/11).
C2_SingleTagCriticality ==
    /\ (Returned /\ Len(tags) = 1) => REq(ret.val, Expected(tags[1]))
    /\ (Returned /\ \E s \in CritSlackValues, m \in MaxReqValues, w \in WorstSlackValues : w >= 0 /\ SingleTag(s, m, w) /\ 0 <= s /\ s <= m) =>
          REq(ret.val, Rat(domains_max_req[PairOf(tags[1])] - tags[1].time, domains_max_req[PairOf(tags[1])]))
    /\ (ret.op = "calc_relaxed_criticality" /\ SingleTag(2, 10, 2)) => (ret.status = "ok" /\ REq(ret.val, Rat(8, 10)))
    /\ (ret.op = "calc_relaxed_criticality" /\ SingleTag(2, 10, -1)) => (ret.status = "ok" /\ REq(ret.val, RSub(ROne, Rat(3, 11))))

\* the call on s=2, m=10, w=-1
C2_Witness ==
    /\ Returned
    /\ SingleTag(2, 10, -1)
    /\ REq(ret.val, Rat(8, 11))

C3_MaxOverTags ==
    Returned =>
        /\ \A i \in 1..Len(tags) : RLe(Expected(tags[i]), ret.val)
        /\ tags # <<>> => \E i \in 1..Len(tags) : REq(ret.val, Expected(tags[i]))
        /\ tags = <<>> => REq(ret.val, RZero)

\* C3: the value returned is the maximum, over all tags, of the per-tag
\* clamped criticality, each tag normalized with the aggregates of its own
\* domain pair (a shift applied for one tag is not applied to the next); the
\* call leaves both maps unchanged; for no tags the result is 0.
C3_MaxCriticality ==
    [][/\ C3_MaxOverTags'
       /\ (ret.op = "calc_relaxed_criticality" => ret.status = "ok" \/ tags # <<>>)'
       /\ domains_max_req' = domains_max_req
       /\ domains_worst_slack' = domains_worst_slack]_vars

\* two tags of different domain pairs, the first pair shifted (worst slack
\* below 0), the second not; the first tag is the more critical one
C3_Witness ==
    /\ Returned
    /\ Len(tags) = 2
    /\ PairOf(tags[1]) # PairOf(tags[2])
    /\ domains_worst_slack[PairOf(tags[1])] < 0
    /\ domains_worst_slack[PairOf(tags[2])] >= 0
    /\ RLt(Expected(tags[2]), Expected(tags[1]))
    /\ RLt(RZero, Expected(tags[2]))
    /\ REq(ret.val, Expected(tags[1]))

\* a tag that violates a precondition of the loop body
BadTag(t) == ~HasEntries(t) \/ ~(ShiftedReq(t) > 0) \/ ~InTolerance(t)

\* C4: a tag whose domain pair is missing from domains_max_req or from
\* domains_worst_slack, or whose max_req is not above 0 after the shift, or
\* whose unclamped criticality is outside [-1e-4, 1+1e-4], ends the call in an
\* assertion failure: no criticality is returned, whatever the other tags are.
C4_AssertionFailure ==
    (ret.op = "calc_relaxed_criticality" /\ \E i \in 1..Len(tags) : BadTag(tags[i])) =>
        (ret.status = "assert" /\ "val" \notin DOMAIN ret)

\* a valid first tag followed by a tag whose unclamped criticality is beyond
\* the tolerance
C4_Witness ==
    /\ ret.op = "calc_relaxed_criticality"
    /\ Len(tags) = 2
    /\ ValidTag(tags[1])
    /\ tags[2].type = "SLACK"
    /\ HasEntries(tags[2])
    /\ ShiftedReq(tags[2]) > 0
    /\ ~InTolerance(tags[2])
    /\ ret.status = "assert"

----------------------------------------------------------------------------
(* worst hold slack of a domain pair, and the hold summary *)

\* worst_slack_loop matching on the launch domain only
RECURSIVE worst_slack_loop_launch_only(_, _, _, _, _)
worst_slack_loop_launch_only(s, i, launch, capture, worst_slack) ==
    IF i > Len(s) THEN worst_slack
    ELSE worst_slack_loop_launch_only(s, i + 1, launch, capture, IF s[i].launch = launch THEN FMin(worst_slack, Fin(s[i].time)) ELSE worst_slack)

\* the loop of find_hold_worst_slack over the visited tags
RECURSIVE worst_slack_loop(_, _, _, _, _)
worst_slack_loop(s, i, launch, capture, worst_slack) ==
    IF i > Len(s) THEN worst_slack
    ELSE LET tag == s[i]
         IN  worst_slack_loop(s, i + 1, launch, capture, IF tag.launch = launch /\ tag.capture = capture THEN FMin(worst_slack, Fin(tag.time)) ELSE worst_slack)

find_hold_worst_slack(slacks, launch, capture) == worst_slack_loop(visit(slacks), 1, launch, capture, PosInf)

\* the domain pairs in the order the summary asks for them: `for domain`
\* (intra-domain), then `for launch_domain / for capture_domain` with
\* launch_domain != capture_domain (inter-domain)
RECURSIVE intra_pairs(_, _)
intra_pairs(clock_domains, i) ==
    IF i > Len(clock_domains) THEN <<>>
    ELSE <<DomainPair(clock_domains[i], clock_domains[i])>> \o intra_pairs(clock_domains, i + 1)

RECURSIVE inter_pairs(_, _, _)
inter_pairs(clock_domains, i, j) ==
    IF i > Len(clock_domains) THEN <<>>
    ELSE IF j > Len(clock_domains) THEN inter_pairs(clock_domains, i + 1, 1)
    ELSE (IF clock_domains[i] # clock_domains[j] THEN <<DomainPair(clock_domains[i], clock_domains[j])>> ELSE <<>>) \o inter_pairs(clock_domains, i, j + 1)

\* the "worst hold slack" rows printed for a list of pairs: a pair whose worst
\* slack is +infinity is passed over (`continue; //No path`)
RECURSIVE slack_rows(_, _, _)
slack_rows(slacks, pairs, i) ==
    IF i > Len(pairs) THEN <<>>
    ELSE LET worst_slack == find_hold_worst_slack(slacks, pairs[i][1], pairs[i][2])
         IN  (IF FEq(worst_slack, PosInf) THEN <<>> ELSE <<[launch |-> pairs[i][1], capture |-> pairs[i][2], worst_slack |-> worst_slack]>>) \o slack_rows(slacks, pairs, i + 1)

\* what print_hold_timing_summary prints: hWNS, hTNS and, for more than one
\* clock domain, the intra-domain rows followed by the inter-domain rows
\* (the histogram it also prints does not bear on the rows)
print_hold_timing_summary(clock_domains, slacks) ==
    [hWNS |-> find_hold_worst_negative_slack(slacks),
     hTNS |-> find_hold_total_negative_slack(slacks),
     rows |-> IF Len(clock_domains) > 1
              THEN slack_rows(slacks, intra_pairs(clock_domains, 1), 1) \o slack_rows(slacks, inter_pairs(clock_domains, 1, 1), 1)
              ELSE <<>>]

\* hold slacks, in grid units, and hold tags of every domain pair
HoldSlackValues == {-1, 2}

HoldTagSet == {TimingTag("SLACK", l, c, t) : l \in Domains, c \in Domains, t \in HoldSlackValues}

\* constraints.clock_domains(): the domains in their enumeration order
ClockDomainLists == {<<1>>, <<1, 2>>}

InitHold ==
    /\ hold_slacks \in NodeTags(HoldTagSet)
    /\ setup_slacks = NoTags
    /\ cpds = <<>>
    /\ domains_max_req = NoMap
    /\ domains_worst_slack = NoMap
    /\ tags = <<>>
    /\ ret = NoRet
    /\ prev_ret = NoRet
    /\ node_type = <<>>
    /\ setup_tags = <<>>
    /\ atom_pins = <<>>
    /\ setup_pin_criticality = <<>>

Call_find_hold_worst_slack ==
    \E launch \in Domains, capture \in Domains :
        Returns([op |-> "find_hold_worst_slack", launch |-> launch, capture |-> capture, val |-> find_hold_worst_slack(hold_slacks, launch, capture)])

\* the constraints name every domain a tag refers to
Call_print_hold_timing_summary ==
    \E clock_domains \in ClockDomainLists :
        /\ \A p \in Positions(hold_slacks) : \E i, j \in 1..Len(clock_domains) : clock_domains[i] = hold_slacks[p[1]][p[2]].launch /\ clock_domains[j] = hold_slacks[p[1]][p[2]].capture
        /\ Returns([op |-> "print_hold_timing_summary", clock_domains |-> clock_domains, val |-> print_hold_timing_summary(clock_domains, hold_slacks)])

NextHold ==
    \/ Call_find_hold_worst_slack
    \/ Call_print_hold_timing_summary

SpecHold == InitHold /\ [][NextHold]_vars

\* the hold slacks of the tags of one domain pair
PairTimes(slacks, launch, capture) == {TimeAt(slacks, p) : p \in {q \in Positions(slacks) : slacks[q[1]][q[2]].launch = launch /\ slacks[q[1]][q[2]].capture = capture}}

\* C11: find_hold_worst_slack(launch, capture) returns the minimum hold slack
\* over the tags of all logical-output nodes whose launch and capture domains
\* are the requested ones (no other tag bears on it), and +infinity exactly
\* when there is no such tag; print_hold_timing_summary prints no row for a
\* domain pair for which +infinity is returned.
C11_HoldWorstSlack ==
    /\ ret.op = "find_hold_worst_slack" =>
          LET M == PairTimes(hold_slacks, ret.launch, ret.capture)
          IN  /\ M = {} <=> ret.val = PosInf
              /\ M # {} => (ret.val.k = "fin" /\ ret.val.v \in M /\ \A t \in M : ret.val.v <= t)
    /\ ret.op = "print_hold_timing_summary" =>
          \A i \in 1..Len(ret.val.rows) :
              /\ PairTimes(hold_slacks, ret.val.rows[i].launch, ret.val.rows[i].capture) # {}
              /\ ret.val.rows[i].worst_slack # PosInf

\* a summary over two clock domains where pair (1, 2) has tags and is printed
\* and pair (2, 1) has none and is passed over, while other pairs hold
\* smaller slacks
C11_Witness ==
    /\ ret.op = "print_hold_timing_summary"
    /\ Len(ret.clock_domains) = 2
    /\ PairTimes(hold_slacks, 2, 1) = {}
    /\ PairTimes(hold_slacks, 1, 2) = {2}
    /\ PairTimes(hold_slacks, 1, 1) = {-1}
    /\ \E i \in 1..Len(ret.val.rows) : ret.val.rows[i] = [launch |-> 1, capture |-> 2, worst_slack |-> Fin(2)]
    /\ \A i \in 1..Len(ret.val.rows) : ~(ret.val.rows[i].launch = 2 /\ ret.val.rows[i].capture = 1)

----------------------------------------------------------------------------
(* clock fanouts *)

\* `fanouts[domain] += 1` on a std::map: a missing key is created at 0 first
increment(fanouts, domain) ==
    IF domain \in DOMAIN fanouts THEN [fanouts EXCEPT ![domain] = @ + 1]
    ELSE [d \in DOMAIN fanouts \cup {domain} |-> IF d = domain THEN 1 ELSE fanouts[d]]

\* `for tag : setup_analyzer.setup_tags(node, type)`: the node's tags of one
\* type, each counted for its launch domain
RECURSIVE fanout_tag_loop(_, _, _, _)
fanout_tag_loop(node_tags, i, type, fanouts) ==
    IF i > Len(node_tags) THEN fanouts
    ELSE fanout_tag_loop(node_tags, i + 1, type, IF node_tags[i].type = type THEN increment(fanouts, node_tags[i].launch) ELSE fanouts)

\* count_node without the test of the node type
count_node_any_type(type, node_tags, fanouts) ==
    fanout_tag_loop(node_tags, 1, "DATA_REQUIRED", fanout_tag_loop(node_tags, 1, "DATA_ARRIVAL", fanouts))

\* the body of the node loop for one node
count_node(type, node_tags, fanouts) ==
    IF type = "SOURCE" \/ type = "SINK"
    THEN fanout_tag_loop(node_tags, 1, "DATA_REQUIRED", fanout_tag_loop(node_tags, 1, "DATA_ARRIVAL", fanouts))
    ELSE fanouts

RECURSIVE fanout_node_loop(_, _, _, _)
fanout_node_loop(node_type_, setup_tags_, node, fanouts) ==
    IF node > Len(node_type_) THEN fanouts
    ELSE fanout_node_loop(node_type_, setup_tags_, node + 1, count_node(node_type_[node], setup_tags_[node], fanouts))

count_clock_fanouts(node_type_, setup_tags_) == fanout_node_loop(node_type_, setup_tags_, 1, NoMap)

\* tatum::NodeType, with IPIN standing for the types that are not counted
NodeTypes == {"SOURCE", "SINK", "IPIN"}

\* setup tags of a node: data arrival tags of both domains, a data required
\* tag, and a clock tag, which neither setup_tags() call returns
FanoutTagSet == {TimingTag("DATA_ARRIVAL", l, 1, 0) : l \in Domains} \cup {TimingTag("DATA_REQUIRED", 1, 1, 0), TimingTag("CLOCK_LAUNCH", 1, 1, 0)}

InitFanouts ==
    /\ node_type \in [Nodes -> NodeTypes]
    /\ setup_tags \in NodeTags(FanoutTagSet)
    /\ setup_slacks = NoTags
    /\ hold_slacks = NoTags
    /\ cpds = <<>>
    /\ domains_max_req = NoMap
    /\ domains_worst_slack = NoMap
    /\ tags = <<>>
    /\ atom_pins = <<>>
    /\ setup_pin_criticality = <<>>
    /\ ret = NoRet
    /\ prev_ret = NoRet

Call_count_clock_fanouts == Returns([op |-> "count_clock_fanouts", val |-> count_clock_fanouts(node_type, setup_tags)])

NextFanouts == Call_count_clock_fanouts

SpecFanouts == InitFanouts /\ [][NextFanouts]_vars

\* the data arrival and data required tags of launch domain d on SOURCE and
\* SINK nodes
CountedTags(d) ==
    {p \in Positions(setup_tags) :
        /\ node_type[p[1]] \in {"SOURCE", "SINK"}
        /\ setup_tags[p[1]][p[2]].type \in {"DATA_ARRIVAL", "DATA_REQUIRED"}
        /\ setup_tags[p[1]][p[2]].launch = d}

\* C12: count_clock_fanouts returns, for each clock domain d, the number of
\* DATA_ARRIVAL tags plus the number of DATA_REQUIRED tags with launch
\* domain d on nodes of type SOURCE or SINK; tags on nodes of another type
\* count for nothing, and a domain without such a tag has no entry.
C12_ClockFanouts ==
    ret.op = "count_clock_fanouts" =>
        /\ DOMAIN ret.val \subseteq Domains
        /\ \A d \in Domains :
              IF CountedTags(d) = {} THEN d \notin DOMAIN ret.val
              ELSE d \in DOMAIN ret.val /\ ret.val[d] = Cardinality(CountedTags(d))

\* a SOURCE node with one tag of each kind for domain 1 gives 2, and the
\* only tag of domain 2 sits on an IPIN node, so domain 2 has no entry
C12_Witness ==
    /\ ret.op = "count_clock_fanouts"
    /\ node_type = <<"SOURCE", "IPIN">>
    /\ setup_tags[1] = <<TimingTag("DATA_ARRIVAL", 1, 1, 0), TimingTag("DATA_REQUIRED", 1, 1, 0)>>
    /\ setup_tags[2] = <<TimingTag("DATA_ARRIVAL", 2, 1, 0)>>
    /\ DOMAIN ret.val = {1}
    /\ ret.val[1] = 2

----------------------------------------------------------------------------
(* criticality of a CLB net pin *)

\* the loop keeping the criticality of the last atom pin
RECURSIVE clb_pin_crit_loop_last(_, _, _, _)
clb_pin_crit_loop_last(atom_pins_, i, setup_pin_criticality_, clb_pin_crit) ==
    IF i > Len(atom_pins_) THEN clb_pin_crit
    ELSE clb_pin_crit_loop_last(atom_pins_, i + 1, setup_pin_criticality_, setup_pin_criticality_[atom_pins_[i]])

\* `for atom_pin : atom_pins` taking std::max with each pin's criticality
RECURSIVE clb_pin_crit_loop(_, _, _, _)
clb_pin_crit_loop(atom_pins_, i, setup_pin_criticality_, clb_pin_crit) ==
    IF i > Len(atom_pins_) THEN clb_pin_crit
    ELSE clb_pin_crit_loop(atom_pins_, i + 1, setup_pin_criticality_, RMax(clb_pin_crit, setup_pin_criticality_[atom_pins_[i]]))

\* atom_pins_ is what find_clb_pin_connected_atom_pins returns for the pin
\* (inet, ipin); setup_pin_criticality_ is timing_info.setup_pin_criticality
calculate_clb_net_pin_criticality(atom_pins_, setup_pin_criticality_) == clb_pin_crit_loop(atom_pins_, 1, setup_pin_criticality_, RZero)

AtomPins == 1..MaxAtomPins

\* setup criticalities of atom pins, which lie in [0, 1]
PinCritValues == {Rat(0, 10), Rat(1, 10), Rat(3, 10), Rat(9, 10)}

InitClbPin ==
    /\ atom_pins \in BoundedSeq(AtomPins, MaxAtomPins)
    /\ setup_pin_criticality \in [AtomPins -> PinCritValues]
    /\ setup_slacks = NoTags
    /\ hold_slacks = NoTags
    /\ cpds = <<>>
    /\ domains_max_req = NoMap
    /\ domains_worst_slack = NoMap
    /\ tags = <<>>
    /\ node_type = <<>>
    /\ setup_tags = <<>>
    /\ ret = NoRet
    /\ prev_ret = NoRet

Call_calculate_clb_net_pin_criticality == Returns([op |-> "calculate_clb_net_pin_criticality", val |-> calculate_clb_net_pin_criticality(atom_pins, setup_pin_criticality)])

NextClbPin == Call_calculate_clb_net_pin_criticality

SpecClbPin == InitClbPin /\ [][NextClbPin]_vars

\* C13: calculate_clb_net_pin_criticality returns the maximum setup
\* criticality over the atom pins the CLB pin maps to, and 0 when it maps to
\* no atom pin (criticalities 0.3, 0.9, 0.1 give 0.9); the result is never
\* below 0.
C13_ClbPinCriticality ==
    ret.op = "calculate_clb_net_pin_criticality" =>
        /\ atom_pins = <<>> => REq(ret.val, RZero)
        /\ atom_pins # <<>> =>
              /\ \E i \in 1..Len(atom_pins) : REq(ret.val, setup_pin_criticality[atom_pins[i]])
              /\ \A i \in 1..Len(atom_pins) : RLe(setup_pin_criticality[atom_pins[i]], ret.val)
        /\ RLe(RZero, ret.val)

\* the pin maps to atom pins of criticality 0.3, 0.9 and 0.1, and 0.9 is
\* returned
C13_Witness ==
    /\ ret.op = "calculate_clb_net_pin_criticality"
    /\ Len(atom_pins) = 3
    /\ setup_pin_criticality[atom_pins[1]] = Rat(3, 10)
    /\ setup_pin_criticality[atom_pins[2]] = Rat(9, 10)
    /\ setup_pin_criticality[atom_pins[3]] = Rat(1, 10)
    /\ ret.val = Rat(9, 10)

----------------------------------------------------------------------------
(* the shift keeps the ratio within bounds *)

\* a slack tag of a pair in violation (worst slack w < 0) whose slack lies
\* between w and the pair's max required time
ShiftBounded(t) ==
    /\ t.type = "SLACK"
    /\ HasEntries(t)
    /\ domains_worst_slack[PairOf(t)] < 0
    /\ domains_worst_slack[PairOf(t)] <= t.time
    /\ t.time <= domains_max_req[PairOf(t)]

\* 1 - slack/max_req after the shift is a number of [0, 1]
UnclampedInUnit(t) ==
    /\ ShiftedReq(t) > 0
    /\ 0 <= Unclamped(t).num
    /\ Unclamped(t).num <= Unclamped(t).den

\* C14 (as stated): for a tag whose domain pair has a negative worst slack w,
\* if w <= slack and slack <= max_req, then after shifting both by -w the
\* unclamped criticality 1 - slack/max_req lies within [0,1], so that neither
\* tolerance assertion fires.
C14_Original ==
    ret.op = "calc_relaxed_criticality" =>
        \A i \in 1..Len(tags) : ShiftBounded(tags[i]) => UnclampedInUnit(tags[i])

\* C14: for a tag whose domain pair has a negative worst slack w, if
\* w <= slack, slack <= max_req and w < max_req (the shifted max_req is
\* above 0), then after shifting both by -w the unclamped criticality
\* 1 - slack/max_req lies within [0,1] and within the tolerance; a call whose
\* tags are all of this kind fails no assertion and returns a criticality.
C14_ShiftKeepsRatioInBounds ==
    ret.op = "calc_relaxed_criticality" =>
        /\ \A i \in 1..Len(tags) :
              (ShiftBounded(tags[i]) /\ domains_worst_slack[PairOf(tags[i])] < domains_max_req[PairOf(tags[i])]) =>
                  (UnclampedInUnit(tags[i]) /\ InTolerance(tags[i]))
        /\ (\A i \in 1..Len(tags) : ShiftBounded(tags[i]) /\ domains_worst_slack[PairOf(tags[i])] < domains_max_req[PairOf(tags[i])]) =>
              ret.status = "ok"

\* a call on two tags of pairs in violation, one with slack = w (shifted to
\* 0, criticality 1) and one with w < slack < max_req
C14_Witness ==
    /\ Returned
    /\ Len(tags) = 2
    /\ \A i \in 1..2 : ShiftBounded(tags[i]) /\ domains_worst_slack[PairOf(tags[i])] < domains_max_req[PairOf(tags[i])]
    /\ tags[1].time = domains_worst_slack[PairOf(tags[1])]
    /\ tags[2].time > domains_worst_slack[PairOf(tags[2])]
    /\ tags[2].time < domains_max_req[PairOf(tags[2])]
    /\ REq(ret.val, ROne)

----------------------------------------------------------------------------
(* monotonicity in the slack *)

\* slacks a tag's slack is lowered to
LoweredSlackValues == {-1, 0, 1, 2, 11, 12}

\* the tags with the slack of tag i set to s
WithSlack(i, s) == [tags EXCEPT ![i] = TimingTag(tags[i].type, tags[i].launch, tags[i].capture, s)]

\* the call on the same maps with the slack of tag i set to s
Lowered(i, s) == calc_relaxed_criticality(domains_max_req, domains_worst_slack, WithSlack(i, s))

\* C15: with the two aggregate maps held fixed, lowering the slack of any one
\* tag of the collection, the other tags unchanged and no precondition
\* violated before or after, never lowers the criticality that
\* calc_relaxed_criticality returns.
C15_MonotoneInSlack ==
    Returned =>
        \A i \in 1..Len(tags) : \A s \in LoweredSlackValues :
            (s < tags[i].time /\ Lowered(i, s).status = "ok") => RLe(ret.val, Lowered(i, s).val)

\* a call on two tags where lowering the slack of the more critical tag
\* raises the result, and lowering the slack of the other one to a value
\* still above the first leaves it as it is
C15_Witness ==
    /\ Returned
    /\ Len(tags) = 2
    /\ \E s \in LoweredSlackValues : s < tags[1].time /\ Lowered(1, s).status = "ok" /\ RLt(ret.val, Lowered(1, s).val)
    /\ \E s \in LoweredSlackValues : s < tags[2].time /\ Lowered(2, s).status = "ok" /\ REq(ret.val, Lowered(2, s).val)
    /\ RLt(RZero, ret.val)
    /\ RLt(ret.val, ROne)

====
